---- MODULE Spec2Model ----
(***************************************************************************)
(* Model of the Deriv trading bot: the WebSocket client DerivAPI           *)
(* (src/src/deriv-api.js) and the strategy engine DerivTrader, in its      *)
(* single-symbol form (src/src/deriv-trader.js) and its multi-symbol form  *)
(* (src/unnamed/part_002).                                                  *)
(*                                                                         *)
(* Node runs one handler at a time; every action below is one handler run  *)
(* to completion together with the promise continuations it releases.      *)
(* Money is counted in 1/10000 of the account currency, so that the stake  *)
(* table and the 95% payout are integers.                                  *)
(***************************************************************************)
EXTENDS Integers, Sequences, FiniteSets, TLC

\* ---------------------------------------------------------------- bounds
\* Requests the client may issue in one run (reqId is capped in the guards):
\* on a connection that may fail, on a stable connection, and in a run
\* against a venue that answers at once and settles every order as lost.
MaxReq == 4
MaxReqStable == 6
MaxReqRun == 13

\* Request ids of the long losing run of the multi-symbol trader without a
\* loss limit (five live trades).
MaxReqLong == 17

\* Request ids of a live run of the multi-symbol trader on two instruments.
MaxReqPair == 7

\* Request ids of a run checked for progress on a connection that may fail.
MaxReqLive == 4

\* Simulated trades in one run with trading disabled.
MaxSimTrades == 8

\* ------------------------------------------------------ program constants
MAX_CONSECUTIVE_DIGITS == 3
MAX_RECONNECT_ATTEMPTS == 5
MESSAGE_TIMEOUT == 30000
MAX_BACKOFF == 30000
BACKOFF_BASE == 1000
PAYOUT_PERCENT == 95

MARTINGALE_MULTIPLIERS ==
    <<3500, 6900, 13900, 28400, 58000, 115200, 235100, 479800>>

ALLOWED_SYMBOLS == {"R_100", "R_50"}

\* Values the venue reports; the client copies them, it never computes them.
OpeningBalances == {10000000}
BalancesAfter == {9996500, 9990000}

\* Last digits carried by ticks and by a contract's tick stream.
TickQuotes == {1234, 1237}
StreamDigits == {4, 7}

Null == 0
NoType == "null"
ContractTypes == {"DIGITODD", "DIGITEVEN"}

VARIABLES
    cfg,               \* config.get(...) values and the program variant
    env,               \* what the network, the venue and the user may do
    proc,              \* "running" | "exit0" | "exit1"
    initPc,            \* position of DerivTrader.initialize
    socket,            \* readyState of this.socket
    sockBase,          \* first request id sent on the current socket
    connected, authorized,
    messageHandlers,   \* req_id -> continuation of the awaiting caller
    reqId,
    reconnectAttempts,
    reconnectTimeout,  \* TRUE while the reconnect timer is armed
    connectWaiter,     \* who awaits connect(): "none" | "init" | "reconnect"
    authIds,           \* request ids that carried an authorize request
    listenerAttached,  \* trader's message listener is on the current socket
    symbolData,        \* symbol -> strategy record
    stats,
    contracts,         \* the venue's orders, by contract id
    simTimers,         \* pending simulated outcomes: symbol -> stake
    shutdownCalls,     \* times shutdown() was entered (saturates at 2)
    completions,       \* req_id -> times its handle was completed
    expired,           \* <<id, j>>: id was rejected by its timeout while
                       \* request j was outstanding
    delayLog,          \* reconnect delays scheduled since the last open
    lastTrade,         \* the last run of placeTrade (history)
    resets,            \* symbol -> resetStrategy ran since its last order
    readySignals       \* times the reconnect callback was invoked

vars == <<cfg, env, proc, initPc, socket, sockBase, connected, authorized,
          messageHandlers, reqId, reconnectAttempts, reconnectTimeout,
          connectWaiter, authIds, listenerAttached, symbolData, stats,
          contracts, simTimers, shutdownCalls, completions, expired,
          delayLog,
          lastTrade, resets, readySignals>>

apiVars == <<socket, sockBase, connected, authorized, messageHandlers, reqId,
             reconnectAttempts, reconnectTimeout, connectWaiter, authIds,
             completions, expired, delayLog>>

\* ---------------------------------------------------------------- helpers
Min(a, b) == IF a < b THEN a ELSE b

RECURSIVE Pow2(_)
Pow2(n) == IF n = 0 THEN 1 ELSE 2 * Pow2(n - 1)

Symbols == {cfg.symbols[i] : i \in 1..Len(cfg.symbols)}

Opposite(t) == IF t = "DIGITEVEN" THEN "DIGITODD" ELSE "DIGITEVEN"

\* A continuation stored with a pending request.
Cont(kind, sym, ctype, stake, idx) ==
    [kind |-> kind, sym |-> sym, ctype |-> ctype, stake |-> stake, idx |-> idx]

\* ------------------------------------------------------------ DerivTrader
\* The strategy record of one symbol. lastDigit and lastUpdate are written
\* by processTick and read nowhere; they are left out of the record.
InitialSymbolData ==
    [consecutiveOdd |-> 0, consecutiveEven |-> 0, lossCount |-> 0,
     ignoreTicks |-> FALSE, activeContractId |-> Null,
     tickSubscriptionId |-> Null, currentContractType |-> NoType,
     nextTradeReady |-> FALSE, predictionMade |-> FALSE,
     pendingContractType |-> NoType]

InitialPerformance == [trades |-> 0, wins |-> 0, losses |-> 0, profit |-> 0]

InitialStats ==
    [totalTrades |-> 0, wonTrades |-> 0, lostTrades |-> 0,
     initialBalance |-> 0, currentBalance |-> 0, profit |-> 0,
     symbolPerformance |-> << >>]

resetStrategy(d) ==
    [d EXCEPT !.consecutiveOdd = 0, !.consecutiveEven = 0, !.lossCount = 0,
              !.ignoreTicks = FALSE, !.activeContractId = Null,
              !.currentContractType = NoType, !.nextTradeReady = FALSE,
              !.predictionMade = FALSE, !.pendingContractType = NoType]

prepareNextTrade(d) ==
    [d EXCEPT !.pendingContractType =
                  IF d.currentContractType # NoType
                  THEN Opposite(d.currentContractType)
                  ELSE d.pendingContractType,
              !.ignoreTicks = FALSE]

\* parseInt(quote.toFixed(pipSize).slice(-1)); a quote is given in pips.
getLastDigit(quote, pipSize) == quote % 10

\* The value the prediction reads: exit_tick_display_value, else the last
\* entry of tick_stream (both given by their last digit; -1 is "absent").
LastTickValue(contract) ==
    IF contract.exit_tick # -1 THEN contract.exit_tick
    ELSE IF Len(contract.tick_stream) > 0
         THEN contract.tick_stream[Len(contract.tick_stream)]
         ELSE -1

predictContractStatus(d, contract) ==
    IF Len(contract.tick_stream) = 0 THEN "null"
    ELSE IF LastTickValue(contract) = -1 THEN "null"
    ELSE LET isEvenTick == LastTickValue(contract) % 2 = 0
         IN IF (isEvenTick /\ d.currentContractType = "DIGITEVEN")
               \/ (~isEvenTick /\ d.currentContractType = "DIGITODD")
            THEN "won" ELSE "lost"

\* A stake that ignores the loss count.
FlatStake(lossCount) == MARTINGALE_MULTIPLIERS[1]

\* The stake placeTrade reads from the table (lossCount is 0-indexed).
StakeFor(lossCount) == MARTINGALE_MULTIPLIERS[lossCount + 1]

TableExhausted(lossCount) == lossCount >= Len(MARTINGALE_MULTIPLIERS)

\* Counting that leaves the other parity's counter as it was.
CountTickKeeping(d, isEven) ==
    IF isEven
    THEN [d EXCEPT !.consecutiveEven = d.consecutiveEven + 1]
    ELSE [d EXCEPT !.consecutiveOdd = d.consecutiveOdd + 1]

\* The counters after a counted tick.
CountTick(d, isEven) ==
    IF isEven
    THEN [d EXCEPT !.consecutiveEven = d.consecutiveEven + 1,
                   !.consecutiveOdd = 0]
    ELSE [d EXCEPT !.consecutiveOdd = d.consecutiveOdd + 1,
                   !.consecutiveEven = 0]

\* A trigger that bets on the parity of the streak itself.
StreakTriggerSame(d) ==
    IF d.consecutiveEven >= cfg.maxTicks THEN "DIGITEVEN"
    ELSE IF d.consecutiveOdd >= cfg.maxTicks THEN "DIGITODD"
    ELSE NoType

\* The contract type processTick requests after counting, or NoType.
StreakTrigger(d) ==
    IF d.consecutiveEven >= cfg.maxTicks THEN "DIGITODD"
    ELSE IF d.consecutiveOdd >= cfg.maxTicks THEN "DIGITEVEN"
    ELSE NoType

\* The pending type the prediction path stores after a predicted loss.
PredictedLossPending(d) ==
    IF d.currentContractType = "DIGITEVEN" THEN "DIGITEVEN" ELSE "DIGITODD"

\* ---------------------------------------------------------------- DerivAPI
\* The delay without the cap.
ReconnectDelayUncapped(attempts) == Pow2(attempts) * BACKOFF_BASE

\* delay = Math.min(30000, Math.pow(2, reconnectAttempts) * 1000)
ReconnectDelay(attempts) == Min(MAX_BACKOFF, Pow2(attempts) * BACKOFF_BASE)

\* send() on a connected client: takes the next id and stores the handler.
\* h is the pair <<reqId, messageHandlers>>.
Send(h, cont) == <<h[1] + 1, h[2] @@ (h[1] :> cont)>>

\* Removing a handler from the table.
Drop(mh, id) == [i \in (DOMAIN mh) \ {id} |-> mh[i]]

Bump(c, id) == [c EXCEPT ![id] = Min(c[id] + 1, 2)]

\* ------------------------------------------------- handlers as functions
\* The part of the state a trader handler can change, as a record; a
\* handler is a function from such a record to the record after it.
Now ==
    [reqId |-> reqId, mh |-> messageHandlers, socket |-> socket,
     rt |-> reconnectTimeout, sd |-> symbolData, stats |-> stats,
     contracts |-> contracts, sim |-> simTimers, initPc |-> initPc,
     proc |-> proc, listener |-> listenerAttached, sc |-> shutdownCalls,
     lastTrade |-> lastTrade, resets |-> resets, ready |-> readySignals]

\* A reset that clears every instrument's record.
ResetAll(t, s) ==
    [t EXCEPT !.sd = [x \in DOMAIN t.sd |-> resetStrategy(t.sd[x])],
              !.resets[s] = TRUE]

\* resetStrategy(symbol), noted in the history.
Reset(t, s) ==
    [t EXCEPT !.sd[s] = resetStrategy(@), !.resets[s] = TRUE]

\* The history entry of one run of placeTrade: what called it, the type it
\* was asked for, the counters it found and how it ended.
Trade(t, s, via, contractType, result) ==
    [tog |-> 1 - t.lastTrade.tog, sym |-> s, via |-> via,
     ctype |-> contractType, even |-> t.sd[s].consecutiveEven,
     odd |-> t.sd[s].consecutiveOdd, result |-> result]

\* A send() without the connection check.
SendAcceptsAlways == TRUE

\* send() accepts a request only on a connected client; otherwise it
\* returns a rejected promise before taking an id.
SendAccepts == connected

SendT(t, cont) ==
    LET h == Send(<<t.reqId, t.mh>>, cont)
    IN [t EXCEPT !.reqId = h[1], !.mh = h[2]]

\* A disconnect() that leaves the reconnect timer armed.
disconnectKeepingTimer(t) ==
    [t EXCEPT !.socket = IF t.socket # "null" /\ connected
                         THEN "closing" ELSE @]

\* api.disconnect(): clearTimeout(reconnectTimeout), and socket.close() when
\* there is a socket and the client is connected.
disconnect(t) ==
    [t EXCEPT !.rt = FALSE,
              !.socket = IF t.socket # "null" /\ connected
                         THEN "closing" ELSE @]

\* api.disconnect() followed by process.exit(0), the tail of shutdown().
ShutdownFinish(t) ==
    [disconnect(t) EXCEPT !.proc = "exit0"]

\* shutdown() from the idx-th symbol on: the next unsubscribe request, or
\* the balance query; a client that is not connected rejects every send at
\* once and the sequence runs through to process.exit.
ShutdownStep(t, idx) ==
    IF ~SendAccepts THEN ShutdownFinish(t)
    ELSE LET js == {j \in idx..Len(cfg.symbols) :
                      /\ cfg.symbols[j] \in DOMAIN t.sd
                      /\ t.sd[cfg.symbols[j]].tickSubscriptionId # Null}
         IN IF js # {}
            THEN LET j == CHOOSE k \in js : \A m \in js : k <= m
                 IN SendT(t, Cont("shutdown_forget", cfg.symbols[j],
                                  NoType, 0, j))
            ELSE SendT(t, Cont("shutdown_balance", "", NoType, 0, 0))

\* A shutdown that gives up when an unsubscribe request fails.
AfterUnsubscribeStrict(t, ok, idx) ==
    IF ok THEN ShutdownStep(t, idx + 1) ELSE t

\* The try/catch around each unsubscribe request of shutdown(): resolved or
\* rejected, the loop goes on to the next symbol.
AfterUnsubscribe(t, ok, idx) == ShutdownStep(t, idx + 1)

shutdown(t) ==
    ShutdownStep([t EXCEPT !.sc = Min(@ + 1, 2)], 1)

checkSafetyLimits(t) ==
    IF /\ cfg.maxConsecutiveLosses # Null
       /\ \E s \in DOMAIN t.sd :
              t.sd[s].lossCount >= cfg.maxConsecutiveLosses
    THEN shutdown(t)
    ELSE IF cfg.maxDailyLoss # Null /\ t.stats.profit <= -cfg.maxDailyLoss
    THEN shutdown(t)
    ELSE t

\* A build whose placeTrade never takes the simulation branch.
TradingAlwaysEnabled == TRUE

\* config.get('TRADING_ENABLED'), as placeTrade tests it.
TradingEnabled == cfg.tradingEnabled

\* placeTrade up to its first await. via tells what called it ("streak" or
\* "follow") and goes to the history.
placeTrade(t, s, contractType, via) ==
    LET d1 == [t.sd[s] EXCEPT !.ignoreTicks = TRUE,
                              !.currentContractType = contractType,
                              !.predictionMade = FALSE,
                              !.pendingContractType = NoType]
        t1 == [t EXCEPT !.sd[s] = d1]
    IN IF TableExhausted(d1.lossCount)
       THEN [Reset(t1, s) EXCEPT
                !.lastTrade = Trade(t, s, via, contractType, "exhausted")]
       ELSE IF ~TradingEnabled
       THEN [t1 EXCEPT !.sim[s] = StakeFor(d1.lossCount),
                       !.lastTrade = Trade(t, s, via, contractType, "sim")]
       ELSE IF SendAccepts
       THEN [SendT(t1, Cont("buy", s, contractType,
                            StakeFor(d1.lossCount), 0))
                EXCEPT !.lastTrade = Trade(t, s, via, contractType, "buy")]
       ELSE [Reset(t1, s) EXCEPT
                !.lastTrade = Trade(t, s, via, contractType, "failed")]

\* The instrument whose state a tick is applied to: the multi-symbol trader
\* looks tick.symbol up, the single-symbol trader never reads it.
TickSymbol(tick) ==
    IF cfg.variant = "single" THEN cfg.symbols[1] ELSE tick.symbol

processTick(t, tick) ==
    LET s == TickSymbol(tick)
    IN IF s \notin DOMAIN t.sd
       THEN t
       ELSE
       LET lastDigit == getLastDigit(tick.quote, tick.pip_size)
           isEven == lastDigit % 2 = 0
           d0 == t.sd[s]
       IN IF d0.nextTradeReady /\ d0.pendingContractType # NoType
          THEN LET t1 == placeTrade(t, s, d0.pendingContractType, "follow")
               IN [t1 EXCEPT !.sd[s].pendingContractType = NoType,
                             !.sd[s].nextTradeReady = FALSE]
          ELSE IF d0.ignoreTicks
          THEN t
          ELSE LET d1 == CountTick(d0, isEven)
                   t1 == [t EXCEPT !.sd[s] = d1]
               IN IF StreakTrigger(d1) # NoType
                  THEN placeTrade(t1, s, StreakTrigger(d1), "streak")
                  ELSE t1

simulateTradeOutcome(t, s, isWin, stake) ==
    LET profit == IF isWin THEN (stake * PAYOUT_PERCENT) \div 100 ELSE -stake
        multi == cfg.variant = "multi"
        st1 == [t.stats EXCEPT !.totalTrades = @ + 1,
                               !.currentBalance = @ + profit,
                               !.profit = @ + profit]
        st2 == IF multi
               THEN [st1 EXCEPT !.symbolPerformance[s].trades = @ + 1,
                                !.symbolPerformance[s].profit = @ + profit]
               ELSE st1
        st3 == IF isWin
               THEN [st2 EXCEPT !.wonTrades = @ + 1]
               ELSE [st2 EXCEPT !.lostTrades = @ + 1]
        st4 == IF ~multi THEN st3
               ELSE IF isWin
               THEN [st3 EXCEPT !.symbolPerformance[s].wins = @ + 1]
               ELSE [st3 EXCEPT !.symbolPerformance[s].losses = @ + 1]
        t1 == IF isWin THEN Reset(t, s)
              ELSE [t EXCEPT !.sd[s] = prepareNextTrade(
                                 [@ EXCEPT !.lossCount = @ + 1])]
    IN [t1 EXCEPT !.stats = st4, !.sd[s].ignoreTicks = FALSE]

\* The symbol whose active contract the message is about ("" if none):
\* the first match in insertion order.
ContractSymbol(t, contract) ==
    LET js == {j \in 1..Len(cfg.symbols) :
                 /\ cfg.symbols[j] \in DOMAIN t.sd
                 /\ t.sd[cfg.symbols[j]].activeContractId
                        = contract.contract_id}
    IN IF js = {} THEN ""
       ELSE cfg.symbols[CHOOSE k \in js : \A m \in js : k <= m]

\* A balance recomputed from the previous balance and the profit.
RecomputedBalance(st, contract) == st.currentBalance + contract.profit

\* The balance the sold branch stores: parseFloat(contract.balance_after).
SettledBalance(st, contract) == contract.balance_after

\* A prediction step that books the predicted outcome in the statistics.
PredictionStepCounting(t, s, contract) ==
    IF ~t.sd[s].predictionMade /\ Len(contract.tick_stream) > 0
    THEN [t EXCEPT !.sd[s].predictionMade = TRUE,
                   !.contracts[contract.contract_id].preds = @ + 1,
                   !.stats.lostTrades = @ + 1]
    ELSE t

\* The early-prediction step of processContractUpdate.
PredictionStep(t, s, contract) ==
    LET d == t.sd[s]
        c == contract.contract_id
    IN IF ~d.predictionMade /\ Len(contract.tick_stream) > 0
       THEN LET prediction == predictContractStatus(d, contract)
            IN IF prediction = "lost"
               THEN [t EXCEPT
                       !.sd[s] = [d EXCEPT
                           !.lossCount = @ + 1,
                           !.pendingContractType = PredictedLossPending(d),
                           !.nextTradeReady = TRUE,
                           !.predictionMade = TRUE,
                           !.ignoreTicks = FALSE],
                       !.contracts[c].incs = @ + 1,
                       !.contracts[c].preds = @ + 1]
               ELSE IF prediction = "won"
               THEN Reset([t EXCEPT !.sd[s].predictionMade = TRUE,
                                    !.contracts[c].preds = @ + 1], s)
               ELSE t
       ELSE t

\* The settlement step of processContractUpdate (status "sold").
SettlementStep(t, s, contract) ==
    LET c == contract.contract_id
        isWin == contract.profit >= 0
        multi == cfg.variant = "multi"
        st1 == [t.stats EXCEPT
                   !.currentBalance = SettledBalance(t.stats, contract),
                   !.profit = @ + contract.profit]
        st2 == IF multi
               THEN [st1 EXCEPT
                       !.symbolPerformance[s].profit = @ + contract.profit]
               ELSE st1
        st3 == IF isWin
               THEN [st2 EXCEPT !.wonTrades = @ + 1]
               ELSE [st2 EXCEPT !.lostTrades = @ + 1]
        st4 == IF ~multi THEN st3
               ELSE IF isWin
               THEN [st3 EXCEPT !.symbolPerformance[s].wins = @ + 1]
               ELSE [st3 EXCEPT !.symbolPerformance[s].losses = @ + 1]
        t0 == IF ~multi THEN t
              ELSE IF isWin THEN Reset(t, s)
              ELSE [t EXCEPT !.sd[s] = prepareNextTrade(
                                 [@ EXCEPT !.lossCount = @ + 1])]
        t1 == [t0 EXCEPT !.stats = st4,
                         !.contracts[c].incs =
                             IF multi /\ ~isWin THEN @ + 1 ELSE @]
        t2 == checkSafetyLimits(t1)
        t3 == IF SendAccepts
              THEN [SendT(t2, Cont("forget_contract", s, NoType, 0, 0))
                       EXCEPT !.contracts[c].forgets = 1]
              ELSE t2
    IN [t3 EXCEPT !.sd[s].activeContractId = Null]

processContractUpdate(t, contract) ==
    LET s == ContractSymbol(t, contract)
    IN IF s = ""
       THEN t
       ELSE LET t1 == PredictionStep(t, s, contract)
            IN IF contract.status = "sold"
               THEN SettlementStep(t1, s, contract)
               ELSE t1

\* The caller's code after `await api.send(...)`: ok is TRUE when the
\* handle resolved with data, FALSE when it was rejected.
\* The argument the trader gives to connect(): none, and the connect() of
\* the reconnect timer gives none either.
callBackOnReconnect == Null

\* A catch block that only logs the error.
PlacementFailedLogged(t, s) == t

\* The catch block of placeTrade: log the error, resetStrategy(symbol).
PlacementFailed(t, s) == Reset(t, s)

Continue(cont, ok, data, t) ==
    LET s == cont.sym
        multi == cfg.variant = "multi"
    IN
    CASE cont.kind = "authorize_init" ->
           IF ~ok THEN [t EXCEPT !.proc = "exit1", !.initPc = "failed"]
           ELSE LET st == [t.stats EXCEPT !.initialBalance = data.balance,
                                          !.currentBalance = data.balance]
                    t1 == IF multi
                          THEN [t EXCEPT
                                 !.stats = [st EXCEPT !.symbolPerformance =
                                     [x \in Symbols |-> InitialPerformance]],
                                 !.sd = [x \in Symbols |-> InitialSymbolData]]
                          ELSE [t EXCEPT !.stats = st]
                IN IF SendAccepts
                   THEN [SendT(t1, Cont("ticks", cfg.symbols[1], NoType, 0, 1))
                            EXCEPT !.initPc = "subscribing"]
                   ELSE [t1 EXCEPT !.proc = "exit1", !.initPc = "failed"]
      [] cont.kind = "ticks" ->
           IF ~ok THEN [t EXCEPT !.proc = "exit1", !.initPc = "failed"]
           ELSE LET t1 == [t EXCEPT !.sd[s].tickSubscriptionId = data.subscription]
                IN IF cont.idx < Len(cfg.symbols) /\ multi
                   THEN IF SendAccepts
                        THEN SendT(t1, Cont("ticks", cfg.symbols[cont.idx + 1],
                                            NoType, 0, cont.idx + 1))
                        ELSE [t1 EXCEPT !.proc = "exit1", !.initPc = "failed"]
                   ELSE [t1 EXCEPT !.listener = TRUE, !.initPc = "done"]
      [] cont.kind = "buy" ->
           IF ~ok
           THEN PlacementFailed(t, s)
           ELSE LET cid == Len(t.contracts) + 1
                    st1 == [t.stats EXCEPT !.totalTrades = @ + 1]
                    st2 == IF multi
                           THEN [st1 EXCEPT !.symbolPerformance[s].trades = @ + 1]
                           ELSE st1
                    t1 == [t EXCEPT
                             !.contracts = Append(@,
                                 [sym |-> s, ctype |-> cont.ctype,
                                  stake |-> cont.stake, status |-> "open",
                                  incs |-> 0, preds |-> 0, forgets |-> 0,
                                  sub |-> t.reqId,
                                  afterReset |-> t.resets[s]]),
                             !.resets[s] = FALSE,
                             !.sd[s].activeContractId = cid,
                             !.stats = st2]
                IN IF SendAccepts
                   THEN SendT(t1, Cont("poc", s, NoType, 0, cid))
                   ELSE Reset(t1, s)
      [] cont.kind = "poc" ->
           IF ~ok
           THEN PlacementFailed(t, s)
           ELSE t
      [] cont.kind = "authorize_reconnect" ->
           IF ok /\ callBackOnReconnect # Null
           THEN [t EXCEPT !.ready = Min(@ + 1, 2)]
           ELSE t
      [] cont.kind = "shutdown_forget" ->
           AfterUnsubscribe(t, ok, cont.idx)
      [] cont.kind = "shutdown_balance" ->
           ShutdownFinish(t)
      [] OTHER -> t

\* ------------------------------------------------------------------ steps
Apply(t) ==
    /\ t.reqId <= env.maxReq + 1
    /\ t.stats.totalTrades <= env.maxTrades
    /\ reqId' = t.reqId
    /\ messageHandlers' = t.mh
    /\ socket' = t.socket
    /\ reconnectTimeout' = t.rt
    /\ symbolData' = t.sd
    /\ stats' = t.stats
    /\ contracts' = t.contracts
    /\ simTimers' = t.sim
    /\ initPc' = t.initPc
    /\ proc' = t.proc
    /\ listenerAttached' = t.listener
    /\ shutdownCalls' = t.sc
    /\ lastTrade' = t.lastTrade
    /\ resets' = t.resets
    /\ readySignals' = t.ready

Running == proc = "running"

Receiving == socket \in {"open", "closing"}

\* The venue has answered every request (a venue that answers at once never
\* pushes while a request is open).
Quiet == env.prompt => DOMAIN messageHandlers = {}

\* Completing a handle while its entry stays in the table.
SettleKeeping(id) == messageHandlers

\* Completing a handle by clearing the whole table.
SettleAll(id) == << >>

\* The live entry is completed and removed in one step.
Settle(id) == Drop(messageHandlers, id)

\* Types the venue can put in a response payload.
ResponseData == [balance : OpeningBalances, subscription : {1}]

\* An error branch that falls through to the authorize handling.
AuthorizedAfterErrorFallthrough(id) ==
    IF id \in authIds THEN TRUE ELSE authorized

\* The authorized flag after an error payload: the error branch returns
\* before the authorize handling.
AuthorizedAfterError(id) == authorized

\* socket.onmessage for a message that carries an error payload.
OnErrorMessage(id) ==
    /\ Running /\ Receiving
    /\ ~env.prompt
    /\ id \in sockBase..(reqId - 1)
    /\ id \in DOMAIN messageHandlers
    /\ LET t == [Now EXCEPT !.mh = Settle(id)]
       IN Apply(Continue(messageHandlers[id], FALSE,
                         CHOOSE d \in ResponseData : TRUE, t))
    /\ completions' = Bump(completions, id)
    /\ authorized' = AuthorizedAfterError(id)
    /\ UNCHANGED <<cfg, env, sockBase, connected, reconnectAttempts,
                   connectWaiter, authIds, delayLog, expired>>

\* socket.onmessage for a response without error payload.
OnResponse(id, data) ==
    /\ Running /\ Receiving
    /\ id \in sockBase..(reqId - 1)
    /\ id \in DOMAIN messageHandlers \/ (id \in authIds /\ ~authorized)
    /\ authorized' = IF id \in authIds THEN TRUE ELSE authorized
    /\ IF id \in DOMAIN messageHandlers
       THEN /\ LET t == [Now EXCEPT !.mh = Settle(id)]
               IN Apply(Continue(messageHandlers[id], TRUE, data, t))
            /\ completions' = Bump(completions, id)
       ELSE /\ Apply(Now)
            /\ UNCHANGED completions
    /\ UNCHANGED <<cfg, env, sockBase, connected, reconnectAttempts,
                   connectWaiter, authIds, delayLog, expired>>

\* A timeout callback that never rejects.
TimeoutNeverRejects(id) == FALSE

\* Whether the timeout callback of request id rejects its handle.
TimeoutRejects(id) == id \in DOMAIN messageHandlers

\* The setTimeout callback armed by send(); timers of equal delay fire in
\* the order they were armed.
OnTimeout(id) ==
    /\ Running
    /\ ~env.prompt
    /\ id \in 1..(reqId - 1)
    /\ \A j \in DOMAIN messageHandlers : j >= id
    /\ IF TimeoutRejects(id)
       THEN /\ LET c == IF id \in DOMAIN messageHandlers
                        THEN messageHandlers[id]
                        ELSE Cont("none", "", NoType, 0, 0)
                   t == [Now EXCEPT !.mh = Settle(id)]
               IN Apply(Continue(c, FALSE,
                                 CHOOSE d \in ResponseData : TRUE, t))
            /\ completions' = Bump(completions, id)
            /\ expired' = expired \cup
                   {<<id, j>> : j \in DOMAIN messageHandlers \ {id}}
       ELSE UNCHANGED <<reqId, messageHandlers, socket, reconnectTimeout,
                        symbolData, stats, contracts, simTimers, initPc,
                        proc, listenerAttached, shutdownCalls, completions,
                        expired,
                        lastTrade, resets, readySignals>>
    /\ UNCHANGED <<cfg, env, sockBase, connected, authorized, reconnectAttempts,
                   connectWaiter, authIds, delayLog>>

\* An onclose that clears connected and leaves authorized as it was.
CloseEffectsKeepingAuthorized(wasClean) ==
    /\ connected' = FALSE
    /\ authorized' = authorized
    /\ IF ~wasClean /\ reconnectAttempts < MAX_RECONNECT_ATTEMPTS
       THEN /\ reconnectAttempts' = reconnectAttempts + 1
            /\ delayLog' = Append(delayLog,
                                  ReconnectDelay(reconnectAttempts + 1))
            /\ reconnectTimeout' = TRUE
       ELSE UNCHANGED <<reconnectAttempts, delayLog, reconnectTimeout>>

\* socket.onclose: the flags, and scheduleReconnect when the close was not
\* clean and attempts remain.
CloseEffects(wasClean) ==
    /\ connected' = FALSE
    /\ authorized' = FALSE
    /\ IF ~wasClean /\ reconnectAttempts < MAX_RECONNECT_ATTEMPTS
       THEN /\ reconnectAttempts' = reconnectAttempts + 1
            /\ delayLog' = Append(delayLog,
                                  ReconnectDelay(reconnectAttempts + 1))
            /\ reconnectTimeout' = TRUE
       ELSE UNCHANGED <<reconnectAttempts, delayLog, reconnectTimeout>>

\* A validateInputs that accepts everything.
validateInputsLenient(c) == TRUE

\* validateInputs(): TRUE when it returns, FALSE when it throws.
validateInputs(c) ==
    /\ \A i \in 1..Len(c.symbols) : c.symbols[i] \in ALLOWED_SYMBOLS
    /\ ~(c.maxTicks <= 0)

\* initialize(): validateInputs, then connect().
Initialize ==
    /\ Running /\ initPc = "start"
    /\ IF validateInputs(cfg)
       THEN /\ socket' = "connecting"
            /\ connectWaiter' = "init"
            /\ initPc' = "connecting"
            /\ UNCHANGED proc
       ELSE /\ proc' = "exit1"
            /\ initPc' = "failed"
            /\ UNCHANGED <<socket, connectWaiter>>
    /\ UNCHANGED <<cfg, env, sockBase, connected, authorized, messageHandlers,
                   reqId, reconnectAttempts, reconnectTimeout, authIds,
                   listenerAttached, symbolData, stats, contracts, simTimers,
                   shutdownCalls, completions, expired, delayLog, lastTrade,
                   resets, readySignals>>

\* A caller of connect() that subscribes to ticks as soon as the socket is
\* open.
AfterConnectSubscribing(waiter) == "ticks"

\* What the caller awaiting connect() sends once it resolves: initialize()
\* and the reconnect timer's callback both call authorize().
AfterConnect(waiter) ==
    IF waiter = "init" THEN "authorize_init" ELSE "authorize_reconnect"

\* socket.onopen, and the awaiting caller's authorize().
OnOpen ==
    /\ Running /\ socket = "connecting"
    /\ reqId <= env.maxReq
    /\ socket' = "open"
    /\ connected' = TRUE
    /\ reconnectAttempts' = 0
    /\ delayLog' = << >>
    /\ connectWaiter' = "none"
    /\ LET kind == AfterConnect(connectWaiter)
           h == Send(<<reqId, messageHandlers>>, Cont(kind, "", NoType, 0, 0))
       IN /\ reqId' = h[1]
          /\ messageHandlers' = h[2]
          /\ authIds' = authIds \cup {reqId}
    /\ initPc' = IF connectWaiter = "init" THEN "authorizing" ELSE initPc
    /\ UNCHANGED <<cfg, env, proc, sockBase, authorized, reconnectTimeout,
                   listenerAttached, symbolData, stats, contracts, simTimers,
                   shutdownCalls, completions, expired, lastTrade, resets,
                   readySignals>>

\* A failed handshake: socket.onerror, then socket.onclose (not clean).
OnConnectError ==
    /\ Running /\ socket = "connecting"
    /\ env.faulty
    /\ socket' = "closed"
    /\ CloseEffects(FALSE)
    /\ connectWaiter' = "none"
    /\ proc' = IF connectWaiter = "init" THEN "exit1" ELSE proc
    /\ initPc' = IF connectWaiter = "init" THEN "failed" ELSE initPc
    /\ UNCHANGED <<cfg, env, sockBase, messageHandlers, reqId, authIds,
                   listenerAttached, symbolData, stats, contracts, simTimers,
                   shutdownCalls, completions, expired, lastTrade, resets,
                   readySignals>>

\* socket.onclose of an established connection.
OnClose(wasClean) ==
    /\ Running /\ Receiving
    /\ env.faulty
    /\ socket' = "closed"
    /\ CloseEffects(wasClean)
    /\ UNCHANGED <<cfg, env, proc, initPc, sockBase, messageHandlers, reqId,
                   connectWaiter, authIds, listenerAttached, symbolData,
                   stats, contracts, simTimers, shutdownCalls, completions,
                   expired,
                   lastTrade, resets, readySignals>>

\* The reconnect timer fires: connect() on a new socket.
ReconnectTimer ==
    /\ Running /\ reconnectTimeout
    /\ reconnectTimeout' = FALSE
    /\ socket' = "connecting"
    /\ sockBase' = reqId
    /\ listenerAttached' = FALSE
    /\ connectWaiter' = "reconnect"
    /\ UNCHANGED <<cfg, env, proc, initPc, connected, authorized, messageHandlers,
                   reqId, reconnectAttempts, authIds, symbolData, stats,
                   contracts, simTimers, shutdownCalls, completions, expired,
                   delayLog,
                   lastTrade, resets, readySignals>>

frame == <<cfg, env, sockBase, connected, authorized, reconnectAttempts,
           connectWaiter, authIds, completions, expired, delayLog>>

\* A tick push, handled by the trader's message listener: a tick of a
\* subscribed stream, or a tick of a symbol the trader does not track.
Tick(s, quote) ==
    /\ Running /\ Receiving /\ listenerAttached
    /\ Quiet
    /\ quote \in env.quotes
    /\ \/ s \in DOMAIN symbolData /\ symbolData[s].tickSubscriptionId # Null
       \/ s \notin Symbols
    /\ Apply(processTick(Now, [symbol |-> s, quote |-> quote, pip_size |-> 2]))
    /\ UNCHANGED frame

\* The digit on which a contract of this type ends as won / lost.
ExitDigit(ctype, win) ==
    IF (ctype = "DIGITEVEN") = win THEN 4 ELSE 7

Pushing(c) ==
    /\ Receiving /\ listenerAttached
    /\ contracts[c].sub >= sockBase

\* An order-update push for an open contract.
ContractUpdate(c, stream) ==
    /\ Running
    /\ c \in 1..Len(contracts)
    /\ contracts[c].status = "open"
    /\ Pushing(c)
    /\ Quiet
    /\ \A i \in 1..Len(stream) :
           \E w \in env.outcomes : stream[i] = ExitDigit(contracts[c].ctype, w)
    /\ Apply(processContractUpdate(Now,
           [contract_id |-> c, status |-> "open", profit |-> 0,
            balance_after |-> 0, tick_stream |-> stream, exit_tick |-> -1]))
    /\ UNCHANGED frame

\* The venue settles a contract and pushes the final update.
Settlement(c, win, withStream, balance) ==
    /\ Running
    /\ c \in 1..Len(contracts)
    /\ contracts[c].status = "open"
    /\ Pushing(c)
    /\ Quiet
    /\ win \in env.outcomes
    /\ balance \in env.balances
    /\ LET k == contracts[c]
           digit == ExitDigit(k.ctype, win)
           msg == [contract_id |-> c, status |-> "sold",
                   profit |-> IF win THEN (k.stake * PAYOUT_PERCENT) \div 100
                              ELSE -k.stake,
                   balance_after |-> balance,
                   tick_stream |-> IF withStream THEN <<digit>> ELSE << >>,
                   exit_tick |-> digit]
           t == [Now EXCEPT !.contracts[c].status =
                                IF win THEN "won" ELSE "lost"]
       IN Apply(processContractUpdate(t, msg))
    /\ UNCHANGED frame

\* The simulation timer of placeTrade fires.
SimOutcome(s, isWin) ==
    /\ Running
    /\ isWin \in env.outcomes
    /\ s \in DOMAIN simTimers
    /\ simTimers[s] # Null
    /\ Apply(simulateTradeOutcome([Now EXCEPT !.sim[s] = Null], s, isWin,
                                  simTimers[s]))
    /\ UNCHANGED frame

\* SIGINT, once setupShutdownHandlers has run.
Sigint ==
    /\ Running /\ initPc = "done"
    /\ env.signals
    /\ shutdownCalls = 0
    /\ Apply(shutdown(Now))
    /\ UNCHANGED frame

\* ---------------------------------------------------------- configuration
Config(variant, symbols, enabled, maxLosses) ==
    [variant |-> variant, symbols |-> symbols,
     maxTicks |-> MAX_CONSECUTIVE_DIGITS, tradingEnabled |-> enabled,
     maxConsecutiveLosses |-> maxLosses, maxDailyLoss |-> Null]

Env(faulty, prompt, quotes, outcomes, balances, signals, maxReq, maxTrades) ==
    [faulty |-> faulty, prompt |-> prompt, quotes |-> quotes,
     outcomes |-> outcomes, balances |-> balances, signals |-> signals,
     maxReq |-> maxReq, maxTrades |-> maxTrades]

Variants == {"multi", "single"}

\* The runs explored: live trading over a connection that may drop and with
\* the user's SIGINT, live trading over a stable connection on a stream of
\* even digits, simulation mode (--simulation), a losing run under
\* MAX_CONSECUTIVE_LOSSES = 5 (live and simulated), and starts with a symbol outside the allowed
\* set or a threshold that is not positive.
Scenarios ==
    {<<Config(v, <<"R_100">>, TRUE, Null),
       Env(TRUE, FALSE, TickQuotes, BOOLEAN, {9996500}, TRUE, MaxReq,
           MaxReq)>> :
         v \in Variants}
    \cup
    {<<Config(v, <<"R_100">>, TRUE, Null),
       Env(FALSE, FALSE, {1234}, BOOLEAN, {9996500}, FALSE, MaxReqStable,
           MaxReqStable)>> :
         v \in Variants}
    \cup
    {<<Config(v, <<"R_100">>, FALSE, Null),
       Env(FALSE, TRUE, TickQuotes, BOOLEAN, BalancesAfter, FALSE, MaxReq,
           MaxSimTrades)>> :
         v \in Variants}
    \cup
    {<<Config(v, <<"R_100">>, TRUE, 5),
       Env(FALSE, TRUE, TickQuotes, {FALSE}, BalancesAfter, FALSE, MaxReqRun,
           MaxReqRun)>> :
         v \in Variants}
    \cup
    {<<Config(v, <<"R_100">>, FALSE, 5),
       Env(FALSE, TRUE, TickQuotes, {FALSE}, BalancesAfter, FALSE, MaxReq,
           MaxSimTrades)>> :
         v \in Variants}
    \cup
    {<<Config("multi", <<"R_100">>, TRUE, Null),
       Env(FALSE, TRUE, {1234}, {FALSE}, {9990000}, FALSE, MaxReqLong,
           MaxReqLong)>>}
    \cup
    {<<Config("multi", <<"R_100", "R_50">>, TRUE, Null),
       Env(FALSE, TRUE, TickQuotes, BOOLEAN, {9996500}, FALSE, MaxReqPair,
           MaxReqPair)>>}
    \cup
    {<<c, Env(FALSE, TRUE, TickQuotes, BOOLEAN, BalancesAfter, FALSE, MaxReq,
              MaxReq)>> :
         c \in {Config(v, <<"R_XX">>, TRUE, Null) : v \in Variants}
               \cup {Config("multi", <<"R_100", "R_XX">>, TRUE, Null)}
               \cup {[Config(v, <<"R_100">>, TRUE, Null)
                         EXCEPT !.maxTicks = n] :
                       v \in Variants, n \in {0, -1}}}

InitWith(c, e) ==
    /\ cfg = c
    /\ env = e
    /\ proc = "running"
    /\ initPc = "start"
    /\ socket = "null"
    /\ sockBase = 1
    /\ connected = FALSE
    /\ authorized = FALSE
    /\ messageHandlers = << >>
    /\ reqId = 1
    /\ reconnectAttempts = 0
    /\ reconnectTimeout = FALSE
    /\ connectWaiter = "none"
    /\ authIds = {}
    /\ listenerAttached = FALSE
    /\ symbolData = IF c.variant = "single"
                    THEN [s \in {c.symbols[1]} |-> InitialSymbolData]
                    ELSE << >>
    /\ stats = InitialStats
    /\ contracts = << >>
    /\ simTimers = [s \in {c.symbols[i] : i \in 1..Len(c.symbols)} |-> Null]
    /\ shutdownCalls = 0
    /\ completions = [i \in 1..e.maxReq |-> 0]
    /\ expired = {}
    /\ delayLog = << >>
    /\ lastTrade = [tog |-> 0, sym |-> "", via |-> "none", ctype |-> NoType,
                    even |-> 0, odd |-> 0, result |-> "none"]
    /\ resets = [s \in {c.symbols[i] : i \in 1..Len(c.symbols)} |-> FALSE]
    /\ readySignals = 0

Init == \E sc \in Scenarios : InitWith(sc[1], sc[2])

Next ==
    \/ Initialize
    \/ OnOpen
    \/ OnConnectError
    \/ \E w \in BOOLEAN : OnClose(w)
    \/ ReconnectTimer
    \/ \E id \in 1..(reqId - 1), d \in ResponseData : OnResponse(id, d)
    \/ \E id \in 1..(reqId - 1) : OnErrorMessage(id)
    \/ \E id \in 1..(reqId - 1) : OnTimeout(id)
    \/ \E s \in ALLOWED_SYMBOLS, q \in TickQuotes : Tick(s, q)
    \/ \E c \in 1..Len(contracts),
          st \in {<< >>} \cup {<<d>> : d \in StreamDigits} :
           ContractUpdate(c, st)
    \/ \E c \in 1..Len(contracts), w \in BOOLEAN, ws \in BOOLEAN,
          b \in BalancesAfter :
           Settlement(c, w, ws, b)
    \/ \E s \in ALLOWED_SYMBOLS, w \in BOOLEAN : SimOutcome(s, w)
    \/ Sigint

Spec == Init /\ [][Next]_vars

\* The runs checked for progress: both traders on a connection that may fail
\* and a venue that may never answer, with a shutdown signal; one live trade
\* and one simulated trade against a venue that answers at once.
LiveScenarios ==
    {<<Config(v, <<"R_100">>, TRUE, Null),
       Env(TRUE, FALSE, {1234}, BOOLEAN, {9996500}, TRUE, MaxReqLive,
           MaxReqLive)>> :
         v \in Variants}
    \cup
    {<<Config("multi", <<"R_100">>, TRUE, Null),
       Env(FALSE, TRUE, {1234}, BOOLEAN, {9996500}, FALSE, MaxReqLive + 2,
           MaxReqLive)>>,
     <<Config("single", <<"R_100">>, FALSE, Null),
       Env(FALSE, TRUE, {1234}, BOOLEAN, {9996500}, FALSE, MaxReqLive,
           MaxReqLive)>>}

LiveInit == \E sc \in LiveScenarios : InitWith(sc[1], sc[2])

\* The timers armed by send() eventually fire while the process runs.
LiveSpec ==
    LiveInit /\ [][Next]_vars
             /\ WF_vars(\E id \in 1..(reqId - 1) : OnTimeout(id))

\* ----------------------------------------------------------- properties

\* C1: the handle of every request id is completed at most once (by the
\* response, by an error payload or by the timeout, never by two of them),
\* and an id's entry is in messageHandlers exactly until the step that
\* completes its handle.
C1_HandleCompletedOnce ==
    \A id \in DOMAIN completions :
        /\ completions[id] <= 1
        /\ completions[id] = 1
             <=> (id < reqId /\ id \notin DOMAIN messageHandlers)

\* A handle was completed on a socket that can still deliver a late
\* response, while the timers of this and of a later request are pending.
C1_Witness ==
    \E id \in DOMAIN completions, j \in DOMAIN messageHandlers :
        /\ completions[id] = 1
        /\ id >= sockBase /\ id < j
        /\ Running /\ Receiving /\ ~env.prompt

\* C2: lossCount rises by exactly one for an order that loses, whether the
\* prediction path, the settlement push or both see the loss: no order is
\* counted twice and no lost order is left uncounted.
C2_OneIncrementPerLoss ==
    \A c \in 1..Len(contracts) :
        /\ contracts[c].incs <= 1
        /\ contracts[c].status = "lost" => contracts[c].incs = 1

\* C3: while a buy request of an instrument awaits its response, no second
\* buy request is issued for that instrument.
C3_OneBuyInFlight ==
    \A s \in ALLOWED_SYMBOLS :
        Cardinality({id \in DOMAIN messageHandlers :
                       /\ messageHandlers[id].kind = "buy"
                       /\ messageHandlers[id].sym = s}) <= 1

\* C4: with MAX_CONSECUTIVE_LOSSES = 5, once the last five orders of an
\* instrument are losing orders (settled as lost, or counted as lost by the
\* prediction on their final tick), no further buy request is sent for it
\* unless shutdown has been initiated.
C4_ShutdownBeforeSixth ==
    [][\A s \in DOMAIN symbolData :
         LET mine == {c \in 1..Len(contracts) : contracts[c].sym = s}
             run == {c \in mine :
                       \A c2 \in mine :
                           c2 >= c => \/ contracts[c2].status = "lost"
                                      \/ contracts[c2].incs >= 1}
         IN (/\ cfg.maxConsecutiveLosses = 5
             /\ Cardinality(run) >= 5
             /\ \E id \in DOMAIN messageHandlers' \ DOMAIN messageHandlers :
                    /\ messageHandlers'[id].kind = "buy"
                    /\ messageHandlers'[id].sym = s)
            => shutdownCalls > 0]_vars

\* C5: every buy request (and every simulated order) is staked at
\* MARTINGALE_MULTIPLIERS[k], k the instrument's lossCount when placeTrade
\* runs (0-indexed, k below the table length); when lossCount has reached
\* the table length placeTrade sends nothing and leaves the instrument
\* reset with lossCount = 0.
C5_StakeLaw ==
    [][\A s \in DOMAIN symbolData :
         LET k == symbolData[s].lossCount
         IN /\ \A id \in DOMAIN messageHandlers' \ DOMAIN messageHandlers :
                  (/\ messageHandlers'[id].kind = "buy"
                   /\ messageHandlers'[id].sym = s)
                  => /\ k < Len(MARTINGALE_MULTIPLIERS)
                     /\ messageHandlers'[id].stake
                            = MARTINGALE_MULTIPLIERS[k + 1]
            /\ (simTimers'[s] # simTimers[s] /\ simTimers'[s] # Null)
                  => /\ k < Len(MARTINGALE_MULTIPLIERS)
                     /\ simTimers'[s] = MARTINGALE_MULTIPLIERS[k + 1]
            /\ (/\ lastTrade' # lastTrade
                /\ lastTrade'.sym = s
                /\ k >= Len(MARTINGALE_MULTIPLIERS))
                  => /\ lastTrade'.result = "exhausted"
                     /\ reqId' = reqId
                     /\ messageHandlers' = messageHandlers
                     /\ simTimers' = simTimers
                     /\ symbolData'[s].lossCount = 0
                     /\ ~symbolData'[s].ignoreTicks]_vars

\* placeTrade has run on an exhausted table.
C5_Witness == lastTrade.result = "exhausted"

\* C6: the order placed after k consecutive lost orders of an instrument
\* (no win and no reset in between) is staked at the k-th table entry
\* (0-indexed), and after 8 of them no further progressive order is placed.
C6_Progression ==
    [][\A s \in DOMAIN symbolData :
         LET mine == {c \in 1..Len(contracts) : contracts[c].sym = s}
             run == {c \in mine :
                       \A c2 \in mine :
                           c2 >= c => /\ contracts[c2].status = "lost"
                                      /\ c2 > c => ~contracts[c2].afterReset}
             k == Cardinality(run)
         IN \A id \in DOMAIN messageHandlers' \ DOMAIN messageHandlers :
                (/\ messageHandlers'[id].kind = "buy"
                 /\ messageHandlers'[id].sym = s
                 /\ k > 0 /\ ~resets[s])
                => /\ k < Len(MARTINGALE_MULTIPLIERS)
                   /\ messageHandlers'[id].stake
                          = MARTINGALE_MULTIPLIERS[k + 1]]_vars

\* C7: the two streak counters of an instrument are never both non-zero,
\* and whenever they change, either one of them grew by one while the
\* other is 0 (a counted tick) or both are 0 (a reset).
C7_StreakCounters ==
    /\ [](\A s \in DOMAIN symbolData :
            ~(/\ symbolData[s].consecutiveEven > 0
              /\ symbolData[s].consecutiveOdd > 0))
    /\ [][\A s \in DOMAIN symbolData \cap DOMAIN symbolData' :
            LET e == symbolData[s].consecutiveEven
                o == symbolData[s].consecutiveOdd
                e2 == symbolData'[s].consecutiveEven
                o2 == symbolData'[s].consecutiveOdd
            IN (e2 # e \/ o2 # o)
               => \/ e2 = 0 /\ o2 = 0
                  \/ e2 = e + 1 /\ o2 = 0
                  \/ o2 = o + 1 /\ e2 = 0]_vars

\* Two ticks of one parity were counted after ticks of the other parity
\* had been counted up to a placement.
C7_Witness ==
    \E s \in DOMAIN symbolData :
        /\ symbolData[s].consecutiveEven = 2
        /\ lastTrade.via = "streak" /\ lastTrade.odd > 0

\* C8: a streak-triggered placement happens only on the tick that brings
\* the streak to exactly the threshold, never at a streak above it.
C8_TriggerAtThreshold ==
    lastTrade.via = "streak"
    => (lastTrade.even = cfg.maxTicks \/ lastTrade.odd = cfg.maxTicks)

\* C9: a streak-triggered placement bets on the parity opposite to the
\* streak that triggered it (DIGITODD after an even streak, DIGITEVEN after
\* an odd streak), and this is the type its request carries.
C9_OppositeParity ==
    [][(lastTrade' # lastTrade /\ lastTrade'.via = "streak")
       => /\ \/ /\ lastTrade'.ctype = "DIGITODD"
                /\ lastTrade'.even >= cfg.maxTicks /\ lastTrade'.odd = 0
             \/ /\ lastTrade'.ctype = "DIGITEVEN"
                /\ lastTrade'.odd >= cfg.maxTicks /\ lastTrade'.even = 0
          /\ lastTrade'.result = "buy"
             => \E id \in DOMAIN messageHandlers' \ DOMAIN messageHandlers :
                    /\ messageHandlers'[id].kind = "buy"
                    /\ messageHandlers'[id].ctype = lastTrade'.ctype]_vars

\* A buy request went out for an odd streak.
C9_Witness ==
    /\ lastTrade.via = "streak" /\ lastTrade.result = "buy"
    /\ lastTrade.ctype = "DIGITEVEN" /\ lastTrade.odd >= cfg.maxTicks

\* C10: the delays scheduled for consecutive failed reconnect attempts are
\* 2 s, 4 s, 8 s, 16 s and 30 s, and no sixth attempt is scheduled.
C10_BackoffSequence ==
    /\ Len(delayLog) <= MAX_RECONNECT_ATTEMPTS
    /\ \A i \in 1..Len(delayLog) :
           delayLog[i] = <<2000, 4000, 8000, 16000, 30000>>[i]

\* All five attempts were scheduled.
C10_Witness == Len(delayLog) = MAX_RECONNECT_ATTEMPTS

\* C11: once MAX_RECONNECT_ATTEMPTS consecutive reconnect attempts have
\* failed, the condition is fatal: the session is shut down rather than
\* left alive, disconnected, with no reconnect pending.
C11_FatalAfterLastAttempt ==
    (/\ reconnectAttempts = MAX_RECONNECT_ATTEMPTS
     /\ socket = "closed"
     /\ ~reconnectTimeout)
    => (shutdownCalls > 0 \/ proc # "running")

\* C12: when the sold message of an instrument's active order is processed,
\* stats.currentBalance afterwards is exactly the balance_after the message
\* carries, whatever the previous balance and the profit.
C12_BalanceFromMessage ==
    [][\A c \in 1..Len(contracts), w \in BOOLEAN, ws \in BOOLEAN,
          b \in BalancesAfter :
          (/\ contracts[c].status = "open"
           /\ \E s \in DOMAIN symbolData : symbolData[s].activeContractId = c
           /\ Settlement(c, w, ws, b))
          => stats'.currentBalance = b]_vars

\* An order was settled and the balance shown is the venue's figure, not
\* the opening balance plus the profit so far.
C12_Witness ==
    /\ stats.wonTrades + stats.lostTrades > 0
    /\ stats.currentBalance \in BalancesAfter
    /\ stats.currentBalance # stats.initialBalance + stats.profit

\* C13: with TRADING_ENABLED = false no buy request and no order-update
\* subscription request is ever sent and no order exists; a placement that
\* passes the exhaustion check arms exactly one simulation timer (none was
\* armed for the instrument before), and each simulated outcome is the firing
\* of one armed timer and counts exactly one trade.
C13_SimulationSendsNothing ==
    /\ [](~cfg.tradingEnabled
          => /\ \A id \in DOMAIN messageHandlers :
                   messageHandlers[id].kind \notin {"buy", "poc"}
             /\ contracts = << >>
             /\ lastTrade.result \in {"none", "sim", "exhausted"})
    /\ [][~cfg.tradingEnabled
          => /\ (lastTrade' # lastTrade /\ lastTrade'.result = "sim")
                => /\ simTimers[lastTrade'.sym] = Null
                   /\ simTimers'[lastTrade'.sym] # Null
                   /\ \A s \in DOMAIN simTimers \ {lastTrade'.sym} :
                         simTimers'[s] = simTimers[s]
                   /\ stats'.totalTrades = stats.totalTrades
             /\ (lastTrade' # lastTrade /\ lastTrade'.result = "exhausted")
                => simTimers' = simTimers
             /\ stats'.totalTrades # stats.totalTrades
                => /\ stats'.totalTrades = stats.totalTrades + 1
                   /\ lastTrade' = lastTrade
                   /\ \E s \in DOMAIN simTimers :
                         /\ simTimers[s] # Null /\ simTimers'[s] = Null
                         /\ \A r \in DOMAIN simTimers \ {s} :
                               simTimers'[r] = simTimers[r]]_vars

\* Simulation mode after two simulated outcomes, with a third trade
\* triggered and its timer armed.
C13_Witness ==
    /\ ~cfg.tradingEnabled
    /\ stats.totalTrades >= 2
    /\ lastTrade.result = "sim"
    /\ \E s \in DOMAIN simTimers : simTimers[s] # Null

\* C14: for every order the early-prediction step, with its lossCount or
\* reset side effect, is applied at most once, however many order updates
\* carrying a tick history arrive and however they interleave with ticks and
\* with the placement of the follow-up trade.
C14_PredictedOnce ==
    \A c \in 1..Len(contracts) : contracts[c].preds <= 1

\* C15: when a buy request fails (its handle is rejected by an error
\* payload or by its timeout, so no order is created), the instrument's
\* lossCount is left as it was: neither incremented nor zeroed.
C15_FailureKeepsLossCount ==
    [][\A id \in DOMAIN messageHandlers :
         (/\ messageHandlers[id].kind = "buy"
          /\ id \notin DOMAIN messageHandlers'
          /\ Len(contracts') = Len(contracts)
          /\ messageHandlers[id].sym \in DOMAIN symbolData)
         => symbolData'[messageHandlers[id].sym].lossCount
              = symbolData[messageHandlers[id].sym].lossCount]_vars

C17_TimeoutFrame ==
    [][\A p \in expired' \ expired :
          /\ p[1] \in DOMAIN messageHandlers
          /\ p[1] \notin DOMAIN messageHandlers'
          /\ p[2] \in DOMAIN messageHandlers'
          /\ messageHandlers'[p[2]] = messageHandlers[p[2]]
          /\ completions'[p[2]] = completions[p[2]]]_vars

\* A request has timed out while another one was outstanding, and the other
\* one is still pending on a socket that can deliver its response.
C17_Witness ==
    \E p \in expired :
        /\ p[2] \in DOMAIN messageHandlers
        /\ completions[p[2]] = 0
        /\ p[2] >= sockBase
        /\ Running /\ Receiving

\* C18: when the connection closes unexpectedly, every request outstanding
\* on it is failed by the close: its handle is rejected and its entry is
\* removed from messageHandlers, none is left pending.
C18_CloseFailsOutstanding ==
    [][(connected /\ ~connected')
       => /\ messageHandlers' = << >>
          /\ \A id \in DOMAIN messageHandlers : completions'[id] = 1]_vars

\* C19: a tick-subscription, order-placement or order-update-subscription
\* request is sent only on an open connection on which an authorize request
\* has already succeeded, also after a reconnect.
C19_AuthorizedBeforeTrading ==
    [][\A id \in DOMAIN messageHandlers' \ DOMAIN messageHandlers :
          messageHandlers'[id].kind \in {"ticks", "buy", "poc"}
          => /\ connected' /\ authorized'
             /\ id >= sockBase'
             /\ \E a \in authIds' :
                   /\ a >= sockBase' /\ a < id
                   /\ a \notin DOMAIN messageHandlers']_vars

\* A buy request is in flight on a connection that has been authorized.
C19_Witness ==
    /\ connected /\ authorized
    /\ \E id \in DOMAIN messageHandlers :
          /\ messageHandlers[id].kind = "buy"
          /\ id >= sockBase
          /\ \E a \in authIds : a >= sockBase /\ a < id /\ completions[a] = 1

\* C20: every successful reconnect after an unexpected close is followed by
\* a re-authorization on the new connection and then by the readiness
\* callback: the step in which the re-authorize request is resolved by its
\* response invokes the callback once.
C20_ReadyAfterReauthorize ==
    [][\A a \in DOMAIN messageHandlers :
          (/\ messageHandlers[a].kind = "authorize_reconnect"
           /\ a \notin DOMAIN messageHandlers'
           /\ ~authorized /\ authorized')
          => readySignals' = readySignals + 1]_vars

C22_OrderStreamsUnsubscribed ==
    [][(\E n \in DOMAIN messageHandlers' \ DOMAIN messageHandlers :
           messageHandlers'[n].kind = "shutdown_balance")
       => \A c \in 1..Len(contracts') :
             (/\ contracts'[c].status = "open"
              /\ contracts'[c].sub >= sockBase
              /\ contracts'[c].sub \notin DOMAIN messageHandlers')
             => contracts'[c].forgets >= 1]_vars

\* C23: when a configured instrument is not in the allowed set or the
\* threshold is not positive, startup fails before any connection attempt:
\* no socket is ever created, no request is ever sent, and the process
\* exits with a failure.
C23_ValidationBeforeConnect ==
    (\/ \E i \in 1..Len(cfg.symbols) : cfg.symbols[i] \notin ALLOWED_SYMBOLS
     \/ cfg.maxTicks <= 0)
    => /\ socket = "null" /\ ~connected /\ connectWaiter = "none"
       /\ reqId = 1 /\ messageHandlers = << >>
       /\ initPc \in {"start", "failed"}
       /\ proc = (IF initPc = "start" THEN "running" ELSE "exit1")

\* A start with invalid inputs has ended in process.exit(1).
C23_Witness ==
    /\ "R_XX" \in Symbols \/ cfg.maxTicks = 0
    /\ proc = "exit1" /\ initPc = "failed"

\* C24: after every settlement, a live settlement push or a simulated
\* outcome, the safety checks run: when the step that records the outcome
\* leaves some instrument's lossCount at MAX_CONSECUTIVE_LOSSES or above,
\* shutdown has been initiated.
C24_SafetyCheckAfterSettlement ==
    [][(/\ stats'.wonTrades + stats'.lostTrades
             > stats.wonTrades + stats.lostTrades
        /\ cfg.maxConsecutiveLosses # Null
        /\ \E s \in DOMAIN symbolData' :
              symbolData'[s].lossCount >= cfg.maxConsecutiveLosses)
       => shutdownCalls' > 0]_vars

\* C25: the early-prediction step never changes the session statistics: a
\* step in which a prediction is applied to an order that stays open (an
\* order update that is not a settlement) leaves totalTrades, wonTrades,
\* lostTrades, the balances, the profit and the per-instrument breakdown as
\* they were, whatever it predicts.
C25_PredictionKeepsStats ==
    [][(\E c \in 1..Len(contracts) :
           /\ contracts'[c].preds > contracts[c].preds
           /\ contracts'[c].status = "open")
       => stats' = stats]_vars

\* An open order has been predicted before anything was settled.
C25_Witness ==
    /\ \E c \in 1..Len(contracts) :
          contracts[c].preds >= 1 /\ contracts[c].status = "open"
    /\ stats.wonTrades + stats.lostTrades = 0
    /\ stats.profit = 0

\* C26: a tick for a symbol that is not tracked changes no instrument's
\* state and no statistics and sends no request.
C26_UntrackedDropped ==
    [][\A s \in ALLOWED_SYMBOLS \ Symbols, q \in TickQuotes :
          Tick(s, q)
          => UNCHANGED <<symbolData, stats, contracts, simTimers,
                         messageHandlers, reqId>>]_vars

\* C27: the streak counters of an instrument are frozen from the moment a
\* trade is triggered until that order is settled; stated for the case the
\* claim singles out: while an order of the instrument for which an early
\* prediction was processed is still open (its settlement has not arrived),
\* no tick advances consecutiveEven or consecutiveOdd.
C27_StreaksFrozen ==
    [][\A s \in DOMAIN symbolData :
          (\E c \in 1..Len(contracts) :
              /\ contracts[c].sym = s /\ contracts[c].status = "open"
              /\ contracts[c].preds >= 1)
          => /\ symbolData'[s].consecutiveEven <= symbolData[s].consecutiveEven
             /\ symbolData'[s].consecutiveOdd <= symbolData[s].consecutiveOdd]_vars

\* C28: in every reachable state each instrument's lossCount lies between 0
\* and the length of the Martingale table.
C28_LossCountInTable ==
    \A s \in DOMAIN symbolData :
        /\ symbolData[s].lossCount >= 0
        /\ symbolData[s].lossCount <= Len(MARTINGALE_MULTIPLIERS)

\* C29: on a predicted LOST for the active order (the step that arms the
\* follow-up trade), the instrument's pending bet is set to the opposite of
\* the current bet type: DIGITEVEN -> DIGITODD, DIGITODD -> DIGITEVEN.
C29_PendingIsOpposite ==
    [][\A s \in DOMAIN symbolData \cap DOMAIN symbolData' :
          (symbolData'[s].nextTradeReady /\ ~symbolData[s].nextTradeReady)
          => symbolData'[s].pendingContractType =
                (IF symbolData[s].currentContractType = "DIGITEVEN"
                 THEN "DIGITODD" ELSE "DIGITEVEN")]_vars

\* C30: every placed order whose settlement push (status sold) arrives is
\* recorded in the session statistics exactly once; stated for the case the
\* claim singles out: when an early prediction for the order was processed
\* in an earlier message, the step that delivers the settlement push still
\* increments exactly one of wonTrades / lostTrades by one and adds the
\* order's profit to the cumulative profit.
C30_SettlementRecordedOnce ==
    [][\A c \in 1..Len(contracts) :
          (/\ contracts[c].status = "open" /\ contracts'[c].status # "open"
           /\ contracts[c].preds >= 1)
          => LET win == contracts'[c].status = "won"
                 profit == IF win
                           THEN (contracts[c].stake * PAYOUT_PERCENT) \div 100
                           ELSE -contracts[c].stake
             IN /\ stats'.wonTrades = stats.wonTrades + (IF win THEN 1 ELSE 0)
                /\ stats'.lostTrades = stats.lostTrades + (IF win THEN 0 ELSE 1)
                /\ stats'.profit = stats.profit + profit]_vars

\* C31: for the same outcome (win or loss) of an instrument's trade, the
\* simulated-outcome handler leaves the instrument's strategy state
\* (lossCount, both streaks, current and pending bet, tick-ignoring flag)
\* and the won/lost counters as the live settlement handler does: in every
\* reachable state with an open active order that was not predicted, the
\* settlement push (status sold, no tick history) and the simulated outcome
\* of the same stake give the same strategy state and counters.
C31_SimulationMatchesSettlement ==
    \A s \in DOMAIN symbolData :
        \A c \in 1..Len(contracts) :
            (/\ symbolData[s].activeContractId = c
             /\ contracts[c].status = "open" /\ contracts[c].sym = s
             /\ contracts[c].preds = 0 /\ ~symbolData[s].predictionMade)
            => \A isWin \in BOOLEAN :
                 LET stake == contracts[c].stake
                     msg == [contract_id |-> c, status |-> "sold",
                             profit |-> IF isWin
                                        THEN (stake * PAYOUT_PERCENT) \div 100
                                        ELSE -stake,
                             balance_after |-> stats.currentBalance,
                             tick_stream |-> << >>, exit_tick |-> -1]
                     live == processContractUpdate(Now, msg)
                     sim == simulateTradeOutcome(Now, s, isWin, stake)
                     View(t) == <<t.sd[s].lossCount, t.sd[s].consecutiveEven,
                                  t.sd[s].consecutiveOdd,
                                  t.sd[s].currentContractType,
                                  t.sd[s].pendingContractType,
                                  t.sd[s].ignoreTicks,
                                  t.stats.wonTrades, t.stats.lostTrades>>
                 IN View(live) = View(sim)

C33_PlacementFailureLocal ==
    [][\A id \in DOMAIN messageHandlers \ DOMAIN messageHandlers' :
          (/\ messageHandlers[id].kind = "buy"
           /\ completions'[id] > completions[id]
           /\ Len(contracts') = Len(contracts))
          => LET d == symbolData'[messageHandlers[id].sym]
             IN /\ shutdownCalls' = shutdownCalls /\ proc' = proc
                /\ stats'.totalTrades = stats.totalTrades
                /\ d.consecutiveEven = 0 /\ d.consecutiveOdd = 0
                /\ d.activeContractId = Null
                /\ d.currentContractType = NoType
                /\ d.pendingContractType = NoType
                /\ ~d.ignoreTicks /\ ~d.nextTradeReady]_vars

C33_Witness ==
    /\ lastTrade.result = "buy" /\ contracts = << >>
    /\ lastTrade.sym \in DOMAIN symbolData
    /\ resets[lastTrade.sym] /\ ~symbolData[lastTrade.sym].ignoreTicks
    /\ stats.totalTrades = 0 /\ shutdownCalls = 0 /\ proc = "running"
    /\ \E id \in 1..(reqId - 1) :
          completions[id] = 1 /\ id \notin DOMAIN messageHandlers
          /\ id \notin authIds /\ id > Len(cfg.symbols) + 1

C35_ErrorRejectsOnlyItsHandler ==
    [][\A id \in DOMAIN messageHandlers :
          OnErrorMessage(id)
          => /\ id \notin DOMAIN messageHandlers'
             /\ \A j \in DOMAIN messageHandlers \ {id} :
                   /\ j \in DOMAIN messageHandlers'
                   /\ messageHandlers'[j] = messageHandlers[j]
             /\ \A j \in DOMAIN completions :
                   completions'[j] = completions[j] + (IF j = id THEN 1 ELSE 0)
             /\ authorized' = authorized
             /\ Len(contracts') = Len(contracts)
             /\ stats'.totalTrades = stats.totalTrades
             /\ listenerAttached' = listenerAttached
             /\ readySignals' = readySignals
             /\ (messageHandlers[id].kind = "authorize_init"
                 => proc' = "exit1")]_vars

C35_Witness ==
    /\ contracts = << >> /\ lastTrade.result = "buy"
    /\ lastTrade.sym \in DOMAIN symbolData /\ resets[lastTrade.sym]
    /\ \E id \in 1..(reqId - 1) :
          /\ id \notin DOMAIN messageHandlers /\ completions[id] = 1
          /\ \E j \in DOMAIN messageHandlers :
                j < id /\ messageHandlers[j].kind = "shutdown_forget"

\* C36: in every reachable state the client is authorized only if it is
\* connected, across connect, authorize responses, unexpected closes,
\* reconnect cycles and disconnect.
C36_AuthorizedImpliesConnected == authorized => connected

C36_Witness ==
    /\ authorized /\ connected /\ socket = "open"
    /\ Cardinality(authIds) >= 2

\* C37: send (and authorize) called while the client is not connected fails
\* immediately and leaves the client unchanged: no step that ends with the
\* client not connected consumes a request id or adds an entry to
\* messageHandlers, and a shutdown started while not connected has all its
\* requests rejected at once, so it reaches exit in the same turn.
C37_SendNeedsConnection ==
    [][/\ ~connected'
          => /\ reqId' = reqId
             /\ DOMAIN messageHandlers' \subseteq DOMAIN messageHandlers
       /\ (~connected /\ shutdownCalls' > shutdownCalls)
          => /\ proc' = "exit0" /\ reqId' = reqId
             /\ messageHandlers' = messageHandlers]_vars

C37_Witness ==
    /\ proc = "exit0" /\ shutdownCalls = 1
    /\ ~connected /\ socket = "closed"
    /\ reqId = 3 /\ DOMAIN messageHandlers = {}

\* C38: in every reachable state, in live and in simulation mode,
\* wonTrades + lostTrades <= totalTrades, and per instrument
\* wins + losses <= trades.
C38_OutcomesWithinTrades ==
    /\ stats.wonTrades + stats.lostTrades <= stats.totalTrades
    /\ \A s \in DOMAIN stats.symbolPerformance :
          stats.symbolPerformance[s].wins + stats.symbolPerformance[s].losses
              <= stats.symbolPerformance[s].trades

C38_Witness ==
    /\ cfg.tradingEnabled /\ cfg.variant = "multi"
    /\ stats.totalTrades = 2
    /\ stats.wonTrades + stats.lostTrades = 2
    /\ stats.symbolPerformance["R_100"].wins
         + stats.symbolPerformance["R_100"].losses = 2

\* C39: once shutdown has been initiated, no new order-placement request is
\* sent for any instrument, even though ticks and order updates may still
\* arrive while shutdown awaits its unsubscribe and balance requests.
C39_NoPlacementAfterShutdown ==
    [][shutdownCalls > 0
       => \A id \in DOMAIN messageHandlers' \ DOMAIN messageHandlers :
             messageHandlers'[id].kind # "buy"]_vars

\* C40: after a trade has been triggered for an instrument, the instrument
\* eventually consumes ticks again in every outcome; so a running trader's
\* instrument that ignores ticks always has something outstanding that can
\* end the ignoring: an active order, a placement request in flight, a
\* simulation timer or an armed follow-up trade.
C40_IgnoringHasCause ==
    proc = "running"
    => \A s \in DOMAIN symbolData :
          symbolData[s].ignoreTicks
          => \/ symbolData[s].activeContractId # Null
             \/ symbolData[s].nextTradeReady
             \/ simTimers[s] # Null
             \/ \E id \in DOMAIN messageHandlers :
                   /\ messageHandlers[id].sym = s
                   /\ messageHandlers[id].kind \in {"buy", "poc"}

====
